---------------------------- MODULE Spec2Model ----------------------------
(***************************************************************************)
(* A model of src/main.py: the SalesAnalyzer class and the main() driver.  *)
(*                                                                         *)
(* The analyzer's state is the data frame self.df (an ordered list of      *)
(* named, typed columns and an ordered list of rows), self.original_rows,  *)
(* and the analysis log self.log_data.  Every method of the class is one   *)
(* action.  Column names are sequences of characters so that the keyword   *)
(* matching of the code ('sales' in col.lower()) is computed, not assumed. *)
(*                                                                         *)
(* Numbers: every numeric cell of an input table is an even integer, so    *)
(* that the median of a column (the mean of its two middle values) is an   *)
(* integer and all arithmetic of the code that the model needs is exact.   *)
(* Values that the code rounds to two decimals (ratios and means) are kept *)
(* as integers in hundredths.                                              *)
(***************************************************************************)
EXTENDS Integers, Sequences, FiniteSets, TLC

(***************************************************************************)
(* Bounds of the model.                                                    *)
(***************************************************************************)
\* the largest number of rows of an exhaustively enumerated input table
MaxRows == 2
\* the number of method calls a client makes when it drives the class itself
MaxCalls == 2

(***************************************************************************)
(* Characters and column names.                                            *)
(***************************************************************************)
UpperChars == <<"A","B","C","D","E","F","G","H","I","J","K","L","M",
                "N","O","P","Q","R","S","T","U","V","W","X","Y","Z">>
LowerChars == <<"a","b","c","d","e","f","g","h","i","j","k","l","m",
                "n","o","p","q","r","s","t","u","v","w","x","y","z">>

\* str.lower() on one character
LowerChar(c) ==
  IF \E i \in 1..Len(UpperChars) : UpperChars[i] = c
  THEN LowerChars[CHOOSE i \in 1..Len(UpperChars) : UpperChars[i] = c]
  ELSE c

\* str.lower()
Lower(name) == [i \in 1..Len(name) |-> LowerChar(name[i])]

\* kw in s   (Python substring test)
Contains(s, kw) ==
  \E i \in 1..(Len(s) - Len(kw) + 1) : SubSeq(s, i, i + Len(kw) - 1) = kw

\* None, as the value of a column variable: `if not col` treats it as ''
None == <<>>

\* the names of the columns of the input tables
N_Sales      == <<"S","a","l","e","s">>
N_Revenue    == <<"R","e","v","e","n","u","e">>
N_Cost       == <<"C","o","s","t">>
N_Quantity   == <<"Q","u","a","n","t","i","t","y">>
N_Product    == <<"P","r","o","d","u","c","t">>
N_Customer   == <<"C","u","s","t","o","m","e","r">>
N_Category   == <<"C","a","t","e","g","o","r","y">>
N_Region     == <<"R","e","g","i","o","n">>
N_OrderDate  == <<"O","r","d","e","r"," ","D","a","t","e">>
N_ShipDate   == <<"S","h","i","p"," ","D","a","t","e">>
N_GrossProfit == <<"G","r","o","s","s"," ","P","r","o","f","i","t">>
N_UnitPrice  == <<"U","n","i","t"," ","P","r","i","c","e">>
N_Notes      == <<"N","o","t","e","s">>

\* the names of the columns the code creates
N_Profit     == <<"P","r","o","f","i","t">>
N_Margin     == <<"P","r","o","f","i","t","_","M","a","r","g","i","n","_",
                  "P","e","r","c","e","n","t","a","g","e">>
N_AvgPrice   == <<"A","v","e","r","a","g","e","_","U","n","i","t","_",
                  "P","r","i","c","e">>
N_Year       == <<"Y","e","a","r">>
N_Month      == <<"M","o","n","t","h">>
N_MonthName  == <<"M","o","n","t","h","_","N","a","m","e">>
N_Quarter    == <<"Q","u","a","r","t","e","r">>
N_Count      == <<"C","o","u","n","t">>

\* the keywords of the code, in the order of its `or` chains
K_sales    == <<"s","a","l","e","s">>
K_revenue  == <<"r","e","v","e","n","u","e">>
K_cost     == <<"c","o","s","t">>
K_profit   == <<"p","r","o","f","i","t">>
K_quantity == <<"q","u","a","n","t","i","t","y">>
K_qty      == <<"q","t","y">>
K_product  == <<"p","r","o","d","u","c","t">>
K_item     == <<"i","t","e","m">>
K_customer == <<"c","u","s","t","o","m","e","r">>
K_client   == <<"c","l","i","e","n","t">>
K_category == <<"c","a","t","e","g","o","r","y">>
K_type     == <<"t","y","p","e">>
K_region   == <<"r","e","g","i","o","n">>
K_state    == <<"s","t","a","t","e">>
K_city     == <<"c","i","t","y">>
K_date     == <<"d","a","t","e">>
K_price    == <<"p","r","i","c","e">>

SalesKeys    == <<K_sales, K_revenue>>
CostKeys     == <<K_cost>>
ProfitKeys   == <<K_profit>>
QuantityKeys == <<K_quantity, K_qty>>
ProductKeys  == <<K_product, K_item>>
CustomerKeys == <<K_customer, K_client>>
CategoryKeys == <<K_category, K_type>>
RegionKeys   == <<K_region, K_state, K_city>>
DateKeys     == <<K_date>>

\* every column name of the model and every keyword of the code
AllNames ==
  {N_Sales, N_Revenue, N_Cost, N_Quantity, N_Product, N_Customer, N_Category,
   N_Region, N_OrderDate, N_ShipDate, N_GrossProfit, N_UnitPrice, N_Notes,
   N_Profit, N_Margin, N_AvgPrice, N_Year, N_Month, N_MonthName, N_Quarter,
   N_Count}
AllKeys ==
  {K_sales, K_revenue, K_cost, K_profit, K_quantity, K_qty, K_product, K_item,
   K_customer, K_client, K_category, K_type, K_region, K_state, K_city,
   K_date, K_price}

\* for each column name, the keywords kw with  kw.lower() in name.lower()
KeywordsIn == [n \in AllNames |-> {kw \in AllKeys : Contains(Lower(n), Lower(kw))}]

\* 'k1' in col.lower() or 'k2' in col.lower() ...
Matches(name, keys) ==
  \E k \in 1..Len(keys) : keys[k] \in KeywordsIn[name]


\* next((col for col in columns if <keyword test>), None), as a scan
RECURSIVE FirstMatch(_, _, _)
FirstMatch(names, keys, i) ==
  IF i > Len(names) THEN None
  ELSE IF Matches(names[i], keys) THEN names[i]
  ELSE FirstMatch(names, keys, i + 1)

(***************************************************************************)
(* Cells.  A cell is a record [t, v]:                                      *)
(*   t = "null"  NaN / NaT / None                        (v = 0)           *)
(*   t = "num"   a number, v in hundredths                                 *)
(*   t = "half"  a number, v in two-hundredths (an inexact median)         *)
(*   t = "inf"   +inf (v = 1) or -inf (v = -1)                             *)
(*   t = "str"   a string, v its code: 1 = "a", 2 = "b", 3 = "tbd",        *)
(*               yyyymmdd = the ISO date text, 101..112 = the month names  *)
(*   t = "date"  a timestamp, v = yyyymmdd                                 *)
(* String codes are ordered as the strings they stand for.                 *)
(***************************************************************************)
Null    == [t |-> "null", v |-> 0]
Num(x)  == [t |-> "num", v |-> x]
Str(x)  == [t |-> "str", v |-> x]
Date(x) == [t |-> "date", v |-> x]
Inf(s)  == [t |-> "inf", v |-> s]

IsNull(c) == c.t = "null"

MonthNames == <<"January", "February", "March", "April", "May", "June", "July",
                "August", "September", "October", "November", "December">>
MonthNameCode(m) == 100 + m

\* the text is an ISO date the parser accepts
IsIsoDate(code) ==
  /\ code \div 10000 \in 1900..2100
  /\ (code \div 100) % 100 \in 1..12
  /\ code % 100 \in 1..28

\* pd.to_datetime(value, errors='coerce') on one value
ParseDate(c) ==
  CASE c.t = "date" -> c
    [] c.t = "str" /\ IsIsoDate(c.v) -> Date(c.v)
    [] c.t = "num" -> Date(19700101)
    [] OTHER -> Null

\* round-half-even of n / d to an integer, d > 0
RoundDiv(n, d) ==
  LET q == n \div d
      r == n % d
  IN  IF 2 * r < d THEN q
      ELSE IF 2 * r > d THEN q + 1
      ELSE IF q % 2 = 0 THEN q ELSE q + 1

Sign(x) == IF x > 0 THEN 1 ELSE IF x < 0 THEN 0 - 1 ELSE 0

\* (a / b * k).round(2) on two numeric cells, in hundredths; k = 1 or 100
DivCells(a, b, k) ==
  IF a.t # "num" \/ b.t # "num" THEN
       IF a.t = "null" \/ b.t = "null" THEN Null
       ELSE IF a.t = "inf" /\ b.t = "num" THEN
            Inf(IF b.v < 0 THEN 0 - a.v ELSE a.v)
       ELSE IF a.t = "num" /\ b.t = "inf" THEN Num(0)
       ELSE Null
  ELSE IF b.v = 0 THEN (IF a.v = 0 THEN Null ELSE Inf(Sign(a.v)))
  ELSE IF b.v > 0 THEN Num(RoundDiv(a.v * 100 * k, b.v))
  ELSE Num(RoundDiv((0 - a.v) * 100 * k, 0 - b.v))

\* a variant that subtracts the wrong way round
SubCells_Swapped(a, b) ==
  IF a.t = "num" /\ b.t = "num" THEN Num(b.v - a.v) ELSE Null

\* a - b on two numeric cells
SubCells(a, b) ==
  IF a.t = "num" /\ b.t = "num" THEN Num(a.v - b.v)
  ELSE IF a.t = "null" \/ b.t = "null" THEN Null
  ELSE IF a.t = "inf" /\ b.t = "inf" THEN
       (IF a.v = b.v THEN Null ELSE Inf(a.v))
  ELSE IF a.t = "inf" THEN Inf(a.v)
  ELSE IF b.t = "inf" THEN Inf(0 - b.v)
  ELSE Null

\* value > 0 on a numeric cell (False on NaN)
Positive(c) ==
  \/ c.t \in {"num", "half"} /\ c.v > 0
  \/ c.t = "inf" /\ c.v > 0

(***************************************************************************)
(* Tables.  A data frame is [cols, rows]: cols a sequence of               *)
(* [name, dtype], dtype "num" (int64 / float64), "str" (object) or "date"  *)
(* (datetime64); rows a sequence of rows, each a sequence of cells in the  *)
(* order of cols.                                                          *)
(***************************************************************************)
ColNames(df) == [i \in 1..Len(df.cols) |-> df.cols[i].name]
HasCol(df, name) == \E i \in 1..Len(df.cols) : df.cols[i].name = name
ColIdx(df, name) == CHOOSE i \in 1..Len(df.cols) : df.cols[i].name = name
NRows(df) == Len(df.rows)
\* df[name], as the sequence of its cells
Col(df, name) == [r \in 1..NRows(df) |-> df.rows[r][ColIdx(df, name)]]

\* df[name] = vals : replaces the column of that name or appends a new one
SetCol(df, name, dtype, vals) ==
  IF HasCol(df, name) THEN
    LET k == ColIdx(df, name) IN
    [cols |-> [df.cols EXCEPT ![k] = [name |-> name, dtype |-> dtype]],
     rows |-> [r \in 1..NRows(df) |-> [df.rows[r] EXCEPT ![k] = vals[r]]]]
  ELSE
    [cols |-> Append(df.cols, [name |-> name, dtype |-> dtype]),
     rows |-> [r \in 1..NRows(df) |-> Append(df.rows[r], vals[r])]]

\* the subsequence of s at the indices satisfying keep, in order
RECURSIVE SelectFrom(_, _, _)
SelectFrom(s, keep, i) ==
  IF i > Len(s) THEN <<>>
  ELSE IF i \in keep THEN <<s[i]>> \o SelectFrom(s, keep, i + 1)
  ELSE SelectFrom(s, keep, i + 1)

\* df[mask]
SelectRows(df, keep) == [df EXCEPT !.rows = SelectFrom(df.rows, keep, 1)]

\* a variant that tries the keywords in turn: the first column holding the
\* first keyword, else the first column holding the second keyword, ...
Resolve_KeywordPriority(df, keys) ==
  LET names == ColNames(df)
      hit(k) == {j \in 1..Len(names) : keys[k] \in KeywordsIn[names[j]]}
      found == {k \in 1..Len(keys) : hit(k) # {}}
  IN  IF found = {} THEN None
      ELSE LET k == CHOOSE k \in found : \A m \in found : k <= m
               j == CHOOSE j \in hit(k) : \A m \in hit(k) : j <= m
           IN  names[j]

\* the resolution of a role: the first column whose lowercased name has a keyword
Resolve(df, keys) == FirstMatch(ColNames(df), keys, 1)

(***************************************************************************)
(* Column statistics used by clean_data.                                   *)
(***************************************************************************)
NonNull(vals) == SelectFrom(vals, {i \in 1..Len(vals) : ~IsNull(vals[i])}, 1)

\* the order of the values of one column, numbers in two-hundredths
Key(c) ==
  CASE c.t = "num" -> 2 * c.v
    [] c.t = "inf" -> c.v * 1000000000
    [] OTHER -> c.v

\* the k-th smallest of a non-empty sequence of cells
Kth(vals, k) ==
  LET i == CHOOSE i \in 1..Len(vals) :
             /\ Cardinality({j \in 1..Len(vals) : Key(vals[j]) < Key(vals[i])}) < k
             /\ k <= Cardinality({j \in 1..Len(vals) : Key(vals[j]) <= Key(vals[i])})
  IN  vals[i]

\* the mean of the two middle values
Mid(a, b) ==
  IF a.t = "num" /\ b.t = "num" THEN
       (IF (a.v + b.v) % 2 = 0 THEN Num((a.v + b.v) \div 2)
        ELSE [t |-> "half", v |-> a.v + b.v])
  ELSE IF a.t = "inf" /\ b.t = "inf" THEN (IF a.v = b.v THEN a ELSE Null)
  ELSE IF a.t = "inf" THEN a
  ELSE IF b.t = "inf" THEN b
  ELSE [t |-> "half", v |-> Key(a) + Key(b)]

\* Series.median(): over the non-null values, NaN when there is none
Median(vals) ==
  LET nn == NonNull(vals)
      n  == Len(nn)
  IN  IF n = 0 THEN Null
      ELSE IF n % 2 = 1 THEN Kth(nn, (n + 1) \div 2)
      ELSE Mid(Kth(nn, n \div 2), Kth(nn, n \div 2 + 1))

\* Series.mode()[0]: the most frequent non-null value, the smallest of them
\* on a tie; Null stands for the empty result of mode()
Mode(vals) ==
  LET nn == NonNull(vals)
      freq(i) == Cardinality({j \in 1..Len(nn) : nn[j] = nn[i]})
      best == {i \in 1..Len(nn) : \A j \in 1..Len(nn) : freq(j) <= freq(i)}
  IN  IF Len(nn) = 0 THEN Null
      ELSE nn[CHOOSE i \in best : \A j \in best : Key(nn[i]) <= Key(nn[j])]

\* df.isnull().sum().sum()
NullCount(df) ==
  Cardinality({rc \in (1..NRows(df)) \X (1..Len(df.cols)) :
                 IsNull(df.rows[rc[1]][rc[2]])})

\* the rows df.duplicated() marks: equal to an earlier row
DuplicatedRows(df) ==
  {i \in 1..NRows(df) : \E j \in 1..(i - 1) : df.rows[j] = df.rows[i]}

\* df.drop_duplicates()
DropDuplicates(df) == SelectRows(df, (1..NRows(df)) \ DuplicatedRows(df))

\* the value the nulls of column k are filled with (Null: nothing is filled)
FillValue(df, k) ==
  LET vals == [r \in 1..NRows(df) |-> df.rows[r][k]] IN
  IF \A r \in 1..NRows(df) : ~IsNull(vals[r]) THEN Null
  ELSE IF df.cols[k].dtype = "num" THEN Median(vals)
  ELSE Mode(vals)

\* the loop of clean_data over the columns with missing values
FillMissing(df) ==
  [df EXCEPT !.rows =
     [r \in 1..NRows(df) |->
        [k \in 1..Len(df.cols) |->
           IF IsNull(df.rows[r][k]) THEN FillValue(df, k) ELSE df.rows[r][k]]]]

\* the columns clean_data filters on: numeric, named quantity / price / sales
FilteredCols(df) ==
  {k \in 1..Len(df.cols) :
     /\ df.cols[k].dtype = "num"
     /\ Matches(df.cols[k].name, <<K_quantity, K_price, K_sales>>)}

\* for col in numeric_cols: df = df[df[col] > 0]
DropNonPositive(df) ==
  SelectRows(df, {r \in 1..NRows(df) :
                    \A k \in FilteredCols(df) : Positive(df.rows[r][k])})

\* the table clean_data leaves
Cleaned(df) == DropNonPositive(FillMissing(DropDuplicates(df)))

(***************************************************************************)
(* The input tables: what pd.read_csv can hand to the analyzer.            *)
(***************************************************************************)
\* the dtype read_csv infers for a column from its values
InferDtype(vals) ==
  IF Len(vals) = 0 THEN "str"
  ELSE IF \A r \in 1..Len(vals) : vals[r].t \in {"null", "num"} THEN "num"
  ELSE "str"

\* the data frame of a list of column names and a list of rows
Frame(names, rows) ==
  [cols |-> [k \in 1..Len(names) |->
               [name  |-> names[k],
                dtype |-> InferDtype([r \in 1..Len(rows) |-> rows[r][k]])]],
   rows |-> rows]

\* all sequences of at most n elements of S
SeqsUpTo(S, n) == UNION {[1..m -> S] : m \in 0..n}

\* the rows over a list of column domains
RowsOver(doms) == {row \in [1..Len(doms) -> UNION {doms[k] : k \in 1..Len(doms)}] :
                     \A k \in 1..Len(doms) : row[k] \in doms[k]}

\* all tables of at most MaxRows rows over a schema of [name, dom]
TablesOver(schema) ==
  {Frame([k \in 1..Len(schema) |-> schema[k].name], rows) :
     rows \in SeqsUpTo(RowsOver([k \in 1..Len(schema) |-> schema[k].dom]), MaxRows)}

TextAB   == {Str(1), Str(2)}
DataSchemas ==
  { <<[name |-> N_Product,  dom |-> TextAB],
      [name |-> N_Sales,    dom |-> {Num(0), Num(200), Num(400), Null}]>>,
    <<[name |-> N_Customer, dom |-> TextAB \cup {Null}],
      [name |-> N_Sales,    dom |-> {Num(0), Num(200), Num(400), Null}]>>,
    <<[name |-> N_Sales,    dom |-> {Num(200), Num(400), Null}],
      [name |-> N_Cost,     dom |-> {Num(0), Num(200), Null}]>>,
    <<[name |-> N_Product,  dom |-> TextAB],
      [name |-> N_Sales,    dom |-> {Num(200), Num(400)}],
      [name |-> N_Quantity, dom |-> {Num(200), Num(400)}]>>,
    <<[name |-> N_Region,   dom |-> TextAB],
      [name |-> N_Sales,    dom |-> {Num(200), Num(400)}],
      [name |-> N_OrderDate, dom |-> {Str(20230115), Str(20230402), Str(3)}]>>,
    <<[name |-> N_Sales,    dom |-> {Num(200), Num(400)}],
      [name |-> N_Cost,     dom |-> {Num(200)}],
      [name |-> N_GrossProfit, dom |-> {Num(200), Null}]>>,
    <<[name |-> N_UnitPrice, dom |-> {Num(0 - 200), Num(0), Num(200), Null}]>> }

DataTables == UNION {TablesOver(schema) : schema \in DataSchemas}

\* the columns of the wide tables, each with the values of its two rows
WideColumns ==
  << [name |-> N_OrderDate, vals |-> <<Str(20230115), Str(20230402)>>],
     [name |-> N_ShipDate,  vals |-> <<Str(3), Str(3)>>],
     [name |-> N_Product,   vals |-> <<Str(1), Str(2)>>],
     [name |-> N_Category,  vals |-> <<Str(2), Str(1)>>],
     [name |-> N_Region,    vals |-> <<Str(1), Str(1)>>],
     [name |-> N_Customer,  vals |-> <<Str(2), Str(1)>>],
     [name |-> N_Sales,     vals |-> <<Num(200), Num(400)>>],
     [name |-> N_Revenue,   vals |-> <<Num(400), Num(0)>>],
     [name |-> N_Cost,      vals |-> <<Num(200), Num(200)>>],
     [name |-> N_Quantity,  vals |-> <<Num(200), Num(400)>>],
     [name |-> N_Profit,    vals |-> <<Num(600), Num(0 - 200)>>] >>

Reverse(s) == [i \in 1..Len(s) |-> s[Len(s) + 1 - i]]

\* the table of a non-empty selection of the wide columns, in the given order
WideTable(order, pick) ==
  LET cs == SelectFrom(order, pick, 1) IN
  Frame([k \in 1..Len(cs) |-> cs[k].name],
        [r \in 1..2 |-> [k \in 1..Len(cs) |-> cs[k].vals[r]]])

WideTables ==
  {WideTable(order, pick) :
     order \in {WideColumns, Reverse(WideColumns)},
     pick \in (SUBSET (1..Len(WideColumns))) \ {{}}}

\* the tables on which a client drives the methods itself
ClientTables ==
  UNION {TablesOver(schema) :
           schema \in {s \in DataSchemas : Len(s) = 1}}
  \cup {WideTable(WideColumns, 1..Len(WideColumns)),
        WideTable(WideColumns, {7, 9}),
        WideTable(Reverse(WideColumns), {3, 4, 5}),
        Frame(<<N_Customer, N_Sales>>,
              << <<Str(1), Num(200)>>, <<Str(2), Num(200)>>, <<Str(1), Num(0)>> >>)}

(***************************************************************************)
(* The state.                                                              *)
(***************************************************************************)
VARIABLES
  df,             \* self.df
  original_rows,  \* self.original_rows
  log_data,       \* self.log_data: [Step, Details], two parallel lists
  driver,         \* "main": main() runs the pipeline; "client": a caller does
  pc,             \* main(): the method it calls next, "done" or "crashed"
  calls,          \* client: the number of calls made so far
  disk_ok,        \* the environment: writes to the outputs directory succeed
  ret,            \* the return value of the last call
  exc,            \* the exception the last call raised, "none" if none
  resolved,       \* the columns the last call resolved its roles to
  arg,            \* the top_n argument of the last call, 0 if it takes none
  trace           \* history: the methods called so far, in order

vars == <<df, original_rows, log_data, driver, pc, calls, disk_ok, ret, exc,
          resolved, arg, trace>>

\* a variant of main() that starts the first aggregator before the derivation
MainOrder_AggregateFirst ==
  << "display_basic_info", "clean_data", "analyze_top_products",
     "add_derived_columns", "analyze_loyal_customer",
     "analyze_profitability_trend", "analyze_by_category",
     "analyze_by_region_and_month", "general_final_report" >>

\* the order of the calls in main()
MainOrder ==
  << "display_basic_info", "clean_data", "add_derived_columns",
     "analyze_top_products", "analyze_loyal_customer",
     "analyze_profitability_trend", "analyze_by_category",
     "analyze_by_region_and_month", "general_final_report" >>

\* the statement of main() after the call of method m
NextStage(m) ==
  LET i == CHOOSE i \in 1..Len(MainOrder) : MainOrder[i] = m IN
  IF i = Len(MainOrder) THEN "done" ELSE MainOrder[i + 1]

\* one log entry: the Details text is kept as its fixed lines and its numbers
Entry(step, lines, args) ==
  [Step |-> step, Details |-> [lines |-> lines, args |-> args]]

\* a variant that starts the lists afresh at each call instead of appending
LogAppend_Reset(log, entries) ==
  [Step    |-> [i \in 1..Len(entries) |-> entries[i].Step],
   Details |-> [i \in 1..Len(entries) |-> entries[i].Details]]

\* self.log_data['Step'].append(..); self.log_data['Details'].append(..)
LogAppend(log, entries) ==
  [Step    |-> log.Step \o [i \in 1..Len(entries) |-> entries[i].Step],
   Details |-> log.Details \o [i \in 1..Len(entries) |-> entries[i].Details]]

NoRoles == [r \in {} |-> None]
NoValue == [kind |-> "None"]

\* the runs of the model: who drives the analyzer, on which table, and
\* whether the outputs directory can be written
Runs ==
  {[driver |-> "main", table |-> t, disk |-> TRUE] : t \in DataTables}
  \cup {[driver |-> "main", table |-> t, disk |-> TRUE] : t \in WideTables}
  \cup {[driver |-> "main", table |-> WideTable(WideColumns, pick), disk |-> FALSE] :
          pick \in (SUBSET (1..Len(WideColumns))) \ {{}}}
  \cup {[driver |-> "client", table |-> t, disk |-> w] :
          t \in ClientTables, w \in BOOLEAN}

\* SalesAnalyzer(filepath) on an existing file holding the table of the run
Init ==
  \E run \in Runs :
    /\ df = run.table
    /\ original_rows = NRows(run.table)
    /\ log_data = LogAppend([Step |-> <<>>, Details |-> <<>>],
                     <<Entry("Data Loading", <<"Data loaded successfully">>,
                             <<NRows(run.table)>>)>>)
    /\ driver = run.driver
    /\ pc = IF run.driver = "main" THEN MainOrder[1] ELSE "client"
    /\ calls = 0
    /\ disk_ok = run.disk
    /\ ret = NoValue
    /\ exc = "none"
    /\ resolved = NoRoles
    /\ arg = 0
    /\ trace = <<>>

\* method m can be called now
Callable(m) ==
  \/ driver = "main" /\ pc = m
  \/ driver = "client" /\ calls < MaxCalls

\* the end of a call m(n) that returns value and leaves newdf and the log
\* extended by entries
Returns(m, n, newdf, entries, value, roles) ==
  /\ df' = newdf
  /\ log_data' = LogAppend(log_data, entries)
  /\ ret' = value
  /\ exc' = "none"
  /\ resolved' = roles
  /\ arg' = n
  /\ trace' = Append(trace, m)
  /\ pc' = IF driver = "main" THEN NextStage(m) ELSE pc
  /\ calls' = IF driver = "client" THEN calls + 1 ELSE calls
  /\ UNCHANGED <<original_rows, driver, disk_ok>>

\* the end of a call m(n) that raises e: main() does not catch it
Raises(m, n, e, roles) ==
  /\ exc' = e
  /\ ret' = NoValue
  /\ resolved' = roles
  /\ arg' = n
  /\ trace' = Append(trace, m)
  /\ pc' = IF driver = "main" THEN "crashed" ELSE pc
  /\ calls' = IF driver = "client" THEN calls + 1 ELSE calls
  /\ UNCHANGED <<df, log_data, original_rows, driver, disk_ok>>

\* a variant without the guard: the aggregation runs and fails on the column
NotFound_Unguarded(m, n, step, message, roles) ==
  Raises(m, n, "KeyError", roles)

\* the exit of an aggregator whose required columns are not found
NotFound(m, n, step, message, roles) ==
  Returns(m, n, df, <<Entry(step, <<message>>, <<>>)>>, NoValue, roles)

(***************************************************************************)
(* The methods.                                                            *)
(***************************************************************************)
display_basic_info ==
  /\ Callable("display_basic_info")
  /\ Returns("display_basic_info", 0, df,
             <<Entry("Basic Data Information", <<"Dataset shape">>,
                     <<NRows(df), Len(df.cols)>>)>>,
             NoValue, NoRoles)

\* a variant that subtracts the wrong way round in the summary
CleanLog_SignSlip(before, after) ==
  << Entry("Missing Values", <<"Missing values per column">>,
           <<NullCount(before)>>),
     Entry("Duplicates Removed", <<"Duplicates removed">>,
           <<Cardinality(DuplicatedRows(before))>>),
     Entry("Data Cleaning Summary", <<"Rows after cleaning", "Rows removed">>,
           <<NRows(after), NRows(after) - original_rows>>) >>

\* the three entries clean_data logs; after is the table it leaves
CleanLog(before, after) ==
  << Entry("Missing Values", <<"Missing values per column">>,
           <<NullCount(before)>>),
     Entry("Duplicates Removed", <<"Duplicates removed">>,
           <<Cardinality(DuplicatedRows(before))>>),
     Entry("Data Cleaning Summary", <<"Rows after cleaning", "Rows removed">>,
           <<NRows(after), original_rows - NRows(after)>>) >>

clean_data ==
  /\ Callable("clean_data")
  /\ LET after == Cleaned(df)
     IN  Returns("clean_data", 0, after, CleanLog(df, after), NoValue, NoRoles)

\* validate_columns(required): the required patterns no column name contains
RECURSIVE MissingColumns(_, _, _)
MissingColumns(names, required, i) ==
  IF i > Len(required) THEN <<>>
  ELSE IF \E k \in 1..Len(names) : required[i].key \in KeywordsIn[names[k]]
       THEN MissingColumns(names, required, i + 1)
       ELSE <<required[i].label>> \o MissingColumns(names, required, i + 1)

\* the list add_derived_columns passes to validate_columns
RequiredColumns ==
  << [label |-> "sales", key |-> K_sales], [label |-> "cost", key |-> K_cost],
     [label |-> "quantity", key |-> K_quantity], [label |-> "date", key |-> K_date] >>

\* a variant whose except clause swallows the error without logging it
ValidationLog_Silent(d) == <<>>

\* the entries logged when validate_columns raises ValueError, which
\* add_derived_columns catches
ValidationLog(d) ==
  LET missing == MissingColumns(ColNames(d), RequiredColumns, 1) IN
  IF Len(missing) > 0
  THEN <<Entry("Column Validation Error",
               <<"Missing required columns">> \o missing, <<>>)>>
  ELSE <<>>

\* the roles add_derived_columns resolves before it adds any column
DeriveRoles(d) ==
  [sales    |-> Resolve(d, SalesKeys),
   cost     |-> Resolve(d, CostKeys),
   profit   |-> Resolve(d, ProfitKeys),
   quantity |-> Resolve(d, QuantityKeys)]

\* sales_col and cost_col and not profit_col
CreatesProfit(roles) ==
  roles.sales # None /\ roles.cost # None /\ roles.profit = None

\* self.df['Profit'] = self.df[sales_col] - self.df[cost_col]
WithProfit(d, roles) ==
  IF CreatesProfit(roles)
  THEN LET s == Col(d, roles.sales)
           c == Col(d, roles.cost)
       IN  SetCol(d, N_Profit, "num", [r \in 1..NRows(d) |-> SubCells(s[r], c[r])])
  ELSE d

\* profit_col after the first rule
ProfitCol(roles) == IF CreatesProfit(roles) THEN N_Profit ELSE roles.profit

\* self.df['Profit_Margin_Percentage'] = (profit / sales * 100).round(2)
WithMargin(d, roles) ==
  IF roles.sales # None /\ ProfitCol(roles) # None
  THEN LET p == Col(d, ProfitCol(roles))
           s == Col(d, roles.sales)
       IN  SetCol(d, N_Margin, "num",
                  [r \in 1..NRows(d) |-> DivCells(p[r], s[r], 100)])
  ELSE d

\* self.df['Average_Unit_Price'] = (sales / quantity).round(2)
WithAvgPrice(d, roles) ==
  IF roles.sales # None /\ roles.quantity # None
  THEN LET s == Col(d, roles.sales)
           q == Col(d, roles.quantity)
       IN  SetCol(d, N_AvgPrice, "num",
                  [r \in 1..NRows(d) |-> DivCells(s[r], q[r], 1)])
  ELSE d

\* the calendar fields of a timestamp cell: .dt.year, .dt.month, ...
YearOf(c)      == IF IsNull(c) THEN Null ELSE Num(100 * (c.v \div 10000))
MonthNum(c)    == (c.v \div 100) % 100
MonthOf(c)     == IF IsNull(c) THEN Null ELSE Num(100 * MonthNum(c))
MonthNameOf(c) == IF IsNull(c) THEN Null ELSE Str(MonthNameCode(MonthNum(c)))
QuarterOf(c)   == IF IsNull(c) THEN Null
                  ELSE Num(100 * ((MonthNum(c) - 1) \div 3 + 1))

\* the date column after pd.to_datetime(..., errors='coerce')
ParsedDates(d, date_col) ==
  LET c == Col(d, date_col) IN [r \in 1..NRows(d) |-> ParseDate(c[r])]

\* isnull().all() on the parsed column: every date failed to parse
AllDatesInvalid(parsed) == \A r \in 1..Len(parsed) : IsNull(parsed[r])

\* the date block: the column is converted in place, then the four calendar
\* columns are added unless every value failed to parse
WithDates(d, date_col) ==
  IF date_col = None THEN d
  ELSE
    LET parsed == ParsedDates(d, date_col)
        d0 == SetCol(d, date_col, "date", parsed)
    IN  IF AllDatesInvalid(parsed) THEN d0
        ELSE
          LET d1 == SetCol(d0, N_Year, "num", [r \in 1..NRows(d) |-> YearOf(parsed[r])])
              d2 == SetCol(d1, N_Month, "num", [r \in 1..NRows(d) |-> MonthOf(parsed[r])])
              d3 == SetCol(d2, N_MonthName, "str",
                           [r \in 1..NRows(d) |-> MonthNameOf(parsed[r])])
          IN  SetCol(d3, N_Quarter, "num", [r \in 1..NRows(d) |-> QuarterOf(parsed[r])])

\* log_info of add_derived_columns; d3 is the table before the date block
DeriveLines(d3, roles, date_col) ==
  (IF CreatesProfit(roles) THEN <<"Profit column created">> ELSE <<>>)
  \o (IF roles.sales # None /\ ProfitCol(roles) # None
      THEN <<"Profit Margin Percentage column created">> ELSE <<>>)
  \o (IF roles.sales # None /\ roles.quantity # None
      THEN <<"Average Unit Price column created">> ELSE <<>>)
  \o (IF date_col = None THEN <<>>
      ELSE IF AllDatesInvalid(ParsedDates(d3, date_col))
           THEN <<"Could not parse date column">>
           ELSE <<"Date-based columns created (Year, Month, Month_Name, Quarter)">>)
  \o <<"New columns added. Total columns now">>

\* add_derived_columns on table d: the table it leaves, the entries it logs
\* and the columns it resolved
Derive(d) ==
  LET roles == DeriveRoles(d)
      d3 == WithAvgPrice(WithMargin(WithProfit(d, roles), roles), roles)
      date_col == Resolve(d3, DateKeys)
      out == WithDates(d3, date_col)
  IN  [df  |-> out,
       log |-> ValidationLog(d)
                 \o <<Entry("Derived Columns", DeriveLines(d3, roles, date_col),
                            <<Len(out.cols)>>)>>,
       roles |-> [roles EXCEPT !.profit = ProfitCol(roles)] @@ [date |-> date_col]]

add_derived_columns ==
  /\ Callable("add_derived_columns")
  /\ LET res == Derive(df)
     IN  Returns("add_derived_columns", 0, res.df, res.log, NoValue, res.roles)

(***************************************************************************)
(* Group-by and the statistics of the aggregators.                         *)
(***************************************************************************)
\* the order of two key tuples: lexicographic, column by column
LexLess(a, b) ==
  \E i \in 1..Len(a) :
    /\ \A j \in 1..(i - 1) : a[j] = b[j]
    /\ Key(a[i]) < Key(b[i])

\* a finite set of key tuples as a sorted sequence
RECURSIVE SortKeys(_)
SortKeys(S) ==
  IF S = {} THEN <<>>
  ELSE LET m == CHOOSE x \in S : \A y \in S : x = y \/ LexLess(x, y)
       IN  <<m>> \o SortKeys(S \ {m})

\* df.groupby(keycols): the groups in the order of their keys (sort=True),
\* rows with a null key left out (dropna=True); each group is its key and
\* the indices of its rows
GroupBy(d, keycols) ==
  LET idx == [k \in 1..Len(keycols) |-> ColIdx(d, keycols[k])]
      keyOf(r) == [k \in 1..Len(keycols) |-> d.rows[r][idx[k]]]
      valid == {r \in 1..NRows(d) : \A k \in 1..Len(keycols) : ~IsNull(keyOf(r)[k])}
      keys == SortKeys({keyOf(r) : r \in valid})
  IN  [g \in 1..Len(keys) |->
         [key |-> keys[g], rows |-> {r \in valid : keyOf(r) = keys[g]}]]

\* the cells of column name in the rows of a group, in row order
GroupCells(d, name, group) == SelectFrom(Col(d, name), group.rows, 1)

RECURSIVE SumNum(_, _)
SumNum(vals, i) ==
  IF i > Len(vals) THEN 0
  ELSE (IF vals[i].t = "num" THEN vals[i].v ELSE 0) + SumNum(vals, i + 1)

HasInf(vals, sign) == \E i \in 1..Len(vals) : vals[i] = Inf(sign)

\* 'sum': nulls skipped, 0 for no value
SumCells(vals) ==
  IF HasInf(vals, 1) /\ HasInf(vals, 0 - 1) THEN Null
  ELSE IF HasInf(vals, 1) THEN Inf(1)
  ELSE IF HasInf(vals, 0 - 1) THEN Inf(0 - 1)
  ELSE Num(SumNum(vals, 1))

\* 'count': the number of non-null values
CountCells(vals) == Len(NonNull(vals))

\* 'mean' then .round(2): NaN for no value
MeanCells(vals) ==
  IF CountCells(vals) = 0 THEN Null
  ELSE IF SumCells(vals).t # "num" THEN SumCells(vals)
  ELSE Num(RoundDiv(SumNum(vals, 1), CountCells(vals)))

\* 'max' and 'min': NaN for no value
MaxCells(vals) == IF CountCells(vals) = 0 THEN Null
                  ELSE Kth(NonNull(vals), CountCells(vals))
MinCells(vals) == IF CountCells(vals) = 0 THEN Null ELSE Kth(NonNull(vals), 1)

\* the permutations of 1..n
Perms(n) == {p \in [1..n -> 1..n] : \A i, j \in 1..n : p[i] = p[j] => i = j}

\* a may stand before b in a column sorted in the given direction, NaN last
InOrder(a, b, ascending) ==
  IF IsNull(b) THEN TRUE
  ELSE IF IsNull(a) THEN FALSE
  ELSE IF ascending THEN Key(a) <= Key(b) ELSE Key(a) >= Key(b)

\* sort_values(by=<one column>) with the default kind='quicksort': the
\* orders it can leave the rows in.  quicksort is not a stable sort, so
\* rows with equal keys come out in any order.
QuickSortOrders(keys, ascending) ==
  {p \in Perms(Len(keys)) :
     \A i, j \in 1..Len(keys) : i < j => InOrder(keys[p[i]], keys[p[j]], ascending)}

\* the rows of a report in the order p
Permute(rows, p) == [i \in 1..Len(rows) |-> rows[p[i]]]

\* DataFrame.head(n), n >= 0
TakeHead(rows, n) == SubSeq(rows, 1, IF n < Len(rows) THEN n ELSE Len(rows))

\* a report table, as a return value
Table(rows) == [kind |-> "table", rows |-> rows]

\* the entry logged after to_csv in its try block
SaveLog(okStep, errStep) ==
  IF disk_ok THEN <<Entry(okStep, <<"Results saved">>, <<>>)>>
  ELSE <<Entry(errStep, <<"Error saving to CSV">>, <<>>)>>

\* top_n=10 in main() and in the signatures
DefaultTopN == 10

\* the top_n arguments of the model: main() passes 10
TopNs == IF driver = "main" THEN {DefaultTopN} ELSE {1, DefaultTopN}

(***************************************************************************)
(* analyze_top_products                                                    *)
(***************************************************************************)
TopProductsRoles(d) ==
  [product  |-> Resolve(d, ProductKeys),
   sales    |-> Resolve(d, SalesKeys),
   quantity |-> Resolve(d, QuantityKeys)]

\* the second metric's column: the quantity column, 'Count' without one
SecondMetricCol(roles) == IF roles.quantity # None THEN roles.quantity ELSE N_Count

\* groupby(product_col).agg(agg_dict).reset_index(), before the sort;
\* metric2 is the summed quantity, or the count of the column 'Count'
TopProductsGroups(d, roles) ==
  LET groups == GroupBy(d, <<roles.product>>) IN
  [g \in 1..Len(groups) |->
     [Product     |-> groups[g].key[1],
      Total_Sales |-> SumCells(GroupCells(d, roles.sales, groups[g])),
      metric2     |-> IF roles.quantity # None
                      THEN SumCells(GroupCells(d, roles.quantity, groups[g]))
                      ELSE Num(100 * CountCells(GroupCells(d, N_Count, groups[g]))),
      metric2_name |-> IF roles.quantity # None THEN "Total_Quantity" ELSE "Count"]]

analyze_top_products ==
  /\ Callable("analyze_top_products")
  /\ \E top_n \in TopNs :
       LET roles == TopProductsRoles(df) IN
       IF roles.product = None \/ roles.sales = None THEN
         NotFound("analyze_top_products", top_n, "Top Products Analysis",
                "Required columns (product or sales) not found",
                roles)
       ELSE IF ~HasCol(df, SecondMetricCol(roles)) THEN
         \* agg() on a column the frame does not have
         Raises("analyze_top_products", top_n, "KeyError", roles)
       ELSE
         LET grouped == TopProductsGroups(df, roles) IN
         \E p \in QuickSortOrders([g \in 1..Len(grouped) |-> grouped[g].Total_Sales],
                                  FALSE) :
           LET product_sales == TakeHead(Permute(grouped, p), top_n) IN
           Returns("analyze_top_products", top_n, df,
                   <<Entry("Top Products Analysis", <<"Top N Best Selling Products">>,
                           <<top_n, Len(product_sales)>>)>>
                     \o SaveLog("Top Products Save", "Top Products Save Error"),
                   Table(product_sales), roles)

(***************************************************************************)
(* analyze_loyal_customer                                                  *)
(***************************************************************************)
LoyalCustomerRoles(d) ==
  [customer |-> Resolve(d, CustomerKeys),
   sales    |-> Resolve(d, SalesKeys)]

\* groupby(customer_col).agg({sales_col: ['sum', 'count', 'mean']})
LoyalCustomerGroups(d, roles) ==
  LET groups == GroupBy(d, <<roles.customer>>) IN
  [g \in 1..Len(groups) |->
     LET vals == GroupCells(d, roles.sales, groups[g]) IN
     [Customer         |-> groups[g].key[1],
      Total_Spending   |-> SumCells(vals),
      Purchase_Count   |-> CountCells(vals),
      Average_Purchase |-> MeanCells(vals)]]

analyze_loyal_customer ==
  /\ Callable("analyze_loyal_customer")
  /\ \E top_n \in TopNs :
       LET roles == LoyalCustomerRoles(df) IN
       IF roles.customer = None \/ roles.sales = None THEN
         NotFound("analyze_loyal_customer", top_n, "Loyal Customers Analysis",
                "Required columns (customer or sales) not found",
                roles)
       ELSE
         LET grouped == LoyalCustomerGroups(df, roles) IN
         \E p \in QuickSortOrders([g \in 1..Len(grouped) |-> grouped[g].Total_Spending],
                                  FALSE) :
           LET customer_analysis == TakeHead(Permute(grouped, p), top_n) IN
           Returns("analyze_loyal_customer", top_n, df,
                   <<Entry("Loyal Customers Analysis", <<"Top N Loyal Customers">>,
                           <<top_n, Len(customer_analysis)>>)>>
                     \o SaveLog("Loyal Customers Save", "Loyal Customers Save Error"),
                   Table(customer_analysis), roles)

(***************************************************************************)
(* analyze_profitability_trend                                             *)
(***************************************************************************)
\* sort_values(by=<several columns>): a stable lexicographic sort
StableOrder(keys) ==
  CHOOSE p \in Perms(Len(keys)) :
    \A i, j \in 1..Len(keys) :
      i < j => \/ LexLess(keys[p[i]], keys[p[j]])
               \/ keys[p[i]] = keys[p[j]] /\ p[i] < p[j]

\* groupby(['Year', 'Month', 'Month_Name']).agg(...).reset_index()
TrendGroups(d) ==
  LET groups == GroupBy(d, <<N_Year, N_Month, N_MonthName>>) IN
  [g \in 1..Len(groups) |->
     LET profit == GroupCells(d, N_Profit, groups[g]) IN
     [Year  |-> groups[g].key[1],
      Month |-> groups[g].key[2],
      Month_Name |-> groups[g].key[3],
      Total_Profit   |-> SumCells(profit),
      Average_Profit |-> MeanCells(profit),
      Avg_Profit_Margin |-> MeanCells(GroupCells(d, N_Margin, groups[g]))]]

analyze_profitability_trend ==
  /\ Callable("analyze_profitability_trend")
  /\ IF ~HasCol(df, N_MonthName) \/ ~HasCol(df, N_Profit) THEN
       NotFound("analyze_profitability_trend", 0, "Profitability Trend Analysis",
                "Required columns (Month_Name or Profit) not found. Run add_derived_columns() first",
                NoRoles)
     ELSE IF ~HasCol(df, N_Year) \/ ~HasCol(df, N_Month) \/ ~HasCol(df, N_Margin) THEN
       \* groupby() or agg() on a column the frame does not have
       Raises("analyze_profitability_trend", 0, "KeyError", NoRoles)
     ELSE
       LET grouped == TrendGroups(df)
           p == StableOrder([g \in 1..Len(grouped) |->
                                <<grouped[g].Year, grouped[g].Month>>])
           monthly_profit == Permute(grouped, p)
       IN  Returns("analyze_profitability_trend", 0, df,
                   <<Entry("Profitability Trend Analysis", <<"monthly_profit">>,
                           <<Len(monthly_profit)>>)>>
                     \o SaveLog("Profitability Trend Save",
                                "Profitability Trend Save Error"),
                   Table(monthly_profit), NoRoles)

(***************************************************************************)
(* analyze_by_category                                                     *)
(***************************************************************************)
CategoryRoles(d) ==
  [category |-> Resolve(d, CategoryKeys),
   sales    |-> Resolve(d, SalesKeys),
   Profit   |-> IF HasCol(d, N_Profit) THEN N_Profit ELSE None]

\* groupby(category_col).agg(agg_dict).reset_index()
CategoryGroups(d, roles) ==
  LET groups == GroupBy(d, <<roles.category>>) IN
  [g \in 1..Len(groups) |->
     LET vals == GroupCells(d, roles.sales, groups[g]) IN
     [Category          |-> groups[g].key[1],
      Total_Sales       |-> SumCells(vals),
      Average_Sales     |-> MeanCells(vals),
      Transaction_Count |-> CountCells(vals)]
     @@ (IF roles.Profit # None
         THEN [Total_Profit |-> SumCells(GroupCells(d, roles.Profit, groups[g]))]
         ELSE [x \in {} |-> Null])]

\* the Sales_Percentage column: Total_Sales / total_sales * 100, rounded
WithSalesPercentage(rows) ==
  LET total == SumCells([g \in 1..Len(rows) |-> rows[g].Total_Sales]) IN
  [g \in 1..Len(rows) |->
     rows[g] @@ [Sales_Percentage |-> DivCells(rows[g].Total_Sales, total, 100)]]

analyze_by_category ==
  /\ Callable("analyze_by_category")
  /\ LET roles == CategoryRoles(df) IN
     IF roles.category = None \/ roles.sales = None THEN
       NotFound("analyze_by_category", 0, "Category Analysis",
                "Required columns (category or sales) not found",
                roles)
     ELSE
       LET grouped == CategoryGroups(df, roles) IN
       \E p \in QuickSortOrders([g \in 1..Len(grouped) |-> grouped[g].Total_Sales],
                                FALSE) :
         LET category_sales == WithSalesPercentage(Permute(grouped, p)) IN
         Returns("analyze_by_category", 0, df,
                 <<Entry("Category Analysis", <<"category_sales">>,
                         <<Len(category_sales)>>)>>
                   \o SaveLog("Category Analysis Save", "Category Analysis Save Error"),
                 Table(category_sales), roles)

(***************************************************************************)
(* analyze_by_region_and_month                                             *)
(***************************************************************************)
RegionRoles(d) ==
  [region |-> Resolve(d, RegionKeys),
   sales  |-> Resolve(d, SalesKeys)]

\* sum / max / min / mean of the sales of a group
SalesSummary(d, sales_col, group) ==
  LET vals == GroupCells(d, sales_col, group) IN
  [Total_Sales  |-> SumCells(vals),
   Highest_Sale |-> MaxCells(vals),
   Lowest_Sale  |-> MinCells(vals),
   Average_Sale |-> MeanCells(vals)]

\* groupby([region_col, 'Month_Name', 'Month']).agg({sales_col: 'sum'})
RegionalMonthlyGroups(d, roles) ==
  LET groups == GroupBy(d, <<roles.region, N_MonthName, N_Month>>) IN
  [g \in 1..Len(groups) |->
     [Region      |-> groups[g].key[1],
      Month_Name  |-> groups[g].key[2],
      Month       |-> groups[g].key[3],
      Total_Sales |-> SumCells(GroupCells(d, roles.sales, groups[g]))]]

\* groupby(region_col).agg({sales_col: ['sum', 'max', 'min', 'mean']})
RegionSummaryGroups(d, roles) ==
  LET groups == GroupBy(d, <<roles.region>>) IN
  [g \in 1..Len(groups) |->
     [Region |-> groups[g].key[1]] @@ SalesSummary(d, roles.sales, groups[g])]

\* groupby(['Month', 'Month_Name']).agg({sales_col: ['sum', 'max', 'min', 'mean']})
MonthSummaryGroups(d, roles) ==
  LET groups == GroupBy(d, <<N_Month, N_MonthName>>) IN
  [g \in 1..Len(groups) |->
     [Month |-> groups[g].key[1], Month_Name |-> groups[g].key[2]]
     @@ SalesSummary(d, roles.sales, groups[g])]

\* the entry logged when one of the three to_csv calls fails; success prints
RegionSaveLog ==
  IF disk_ok THEN <<>>
  ELSE <<Entry("Region and Month Save Error", <<"Error saving to CSV">>, <<>>)>>

analyze_by_region_and_month ==
  /\ Callable("analyze_by_region_and_month")
  /\ LET roles == RegionRoles(df) IN
     IF roles.region = None \/ roles.sales = None THEN
       NotFound("analyze_by_region_and_month", 0, "Region and Month Analysis",
                "Required columns (region or sales) not found",
                roles)
     ELSE IF ~HasCol(df, N_MonthName) \/ ~HasCol(df, N_Month) THEN
       \* groupby() on a column the frame does not have
       Raises("analyze_by_region_and_month", 0, "KeyError", roles)
     ELSE
       LET detail == RegionalMonthlyGroups(df, roles)
           regional_monthly ==
             Permute(detail, StableOrder([g \in 1..Len(detail) |->
                                            <<detail[g].Region, detail[g].Month>>]))
           regions == RegionSummaryGroups(df, roles)
           months == MonthSummaryGroups(df, roles)
       IN
       \E p \in QuickSortOrders([g \in 1..Len(regions) |-> regions[g].Total_Sales],
                                FALSE) :
       \E q \in QuickSortOrders([g \in 1..Len(months) |-> months[g].Month], TRUE) :
         Returns("analyze_by_region_and_month", 0, df,
                 << Entry("Regional Monthly Sales", <<"regional_monthly">>,
                          <<Len(regional_monthly)>>),
                    Entry("Region Summary", <<"region_summary">>, <<Len(regions)>>),
                    Entry("Month Summary", <<"month_summary">>, <<Len(months)>>) >>
                   \o RegionSaveLog,
                 [kind |-> "tables",
                  regional_monthly |-> regional_monthly,
                  region_summary   |-> Permute(regions, p),
                  month_summary    |-> Permute(months, q)],
                 roles)

(***************************************************************************)
(* general_final_report                                                    *)
(***************************************************************************)
FinalReportRoles(d) ==
  [sales  |-> Resolve(d, SalesKeys),
   Profit |-> IF HasCol(d, N_Profit) THEN N_Profit ELSE None]

\* one row of the report: the Value is the number the text is formatted from
Metric(name, value) == [Metric |-> name, Value |-> value]

\* the (Metric, Value) rows, in the order the code appends them
FinalReport(d, roles) ==
  <<Metric("Total Transactions", Num(100 * NRows(d)))>>
  \o (IF roles.sales # None
      THEN LET s == Col(d, roles.sales) IN
           << Metric("Total Sales Revenue", SumCells(s)),
              Metric("Average Transaction Value", MeanCells(s)),
              Metric("Highest Single Transaction", MaxCells(s)),
              Metric("Lowest Single Transaction", MinCells(s)) >>
      ELSE <<>>)
  \o (IF roles.Profit # None
      THEN LET q == Col(d, roles.Profit) IN
           << Metric("Total Profit", SumCells(q)),
              Metric("Average Profit per Transaction", MeanCells(q)) >>
           \o (IF HasCol(d, N_Margin)
               THEN <<Metric("Average Profit Margin", MeanCells(Col(d, N_Margin)))>>
               ELSE <<>>)
      ELSE <<>>)

\* a variant that drops the rows with a missing value before it saves the table
general_final_report_DropsRows ==
  /\ Callable("general_final_report")
  /\ LET roles == FinalReportRoles(df)
         kept == SelectRows(df, {r \in 1..NRows(df) :
                                   \A k \in 1..Len(df.cols) : ~IsNull(df.rows[r][k])})
     IN
     Returns("general_final_report", 0, kept,
             IF disk_ok
             THEN <<Entry("Final Report Save",
                          <<"Final cleaned and enriched dataset saved",
                            "Final report saved">>, <<>>)>>
             ELSE <<Entry("Final Report Save Error", <<"Error saving to CSV">>, <<>>)>>,
             Table(FinalReport(kept, roles)), roles)

general_final_report ==
  /\ Callable("general_final_report")
  /\ LET roles == FinalReportRoles(df) IN
     Returns("general_final_report", 0, df,
             IF disk_ok
             THEN <<Entry("Final Report Save",
                          <<"Final cleaned and enriched dataset saved",
                            "Final report saved">>, <<>>)>>
             ELSE <<Entry("Final Report Save Error", <<"Error saving to CSV">>, <<>>)>>,
             Table(FinalReport(df, roles)), roles)

Next ==
  \/ display_basic_info
  \/ clean_data
  \/ add_derived_columns
  \/ analyze_top_products
  \/ analyze_loyal_customer
  \/ analyze_profitability_trend
  \/ analyze_by_category
  \/ analyze_by_region_and_month
  \/ general_final_report

Spec == Init /\ [][Next]_vars

(***************************************************************************)
(* Properties.                                                             *)
(***************************************************************************)
\* the method called last, "" before the first call
LastCall == IF Len(trace) = 0 THEN "" ELSE trace[Len(trace)]

\* the step name and the Details of the entry logged last
LastStep == log_data.Step[Len(log_data.Step)]
LastDetails == log_data.Details[Len(log_data.Details)]

\* some column of d has a name containing one of the keywords
HasMatch(d, keys) ==
  \E k \in 1..Len(d.cols) : \E j \in 1..Len(keys) :
    Contains(Lower(d.cols[k].name), keys[j])

\* the aggregators that resolve their roles by keyword, with the role each
\* needs besides Sales
KeywordAggregators ==
  { [method |-> "analyze_top_products", step |-> "Top Products Analysis",
     keys |-> ProductKeys,
     message |-> "Required columns (product or sales) not found"],
    [method |-> "analyze_loyal_customer", step |-> "Loyal Customers Analysis",
     keys |-> CustomerKeys,
     message |-> "Required columns (customer or sales) not found"],
    [method |-> "analyze_by_category", step |-> "Category Analysis",
     keys |-> CategoryKeys,
     message |-> "Required columns (category or sales) not found"],
    [method |-> "analyze_by_region_and_month", step |-> "Region and Month Analysis",
     keys |-> RegionKeys,
     message |-> "Required columns (region or sales) not found"] }

\* C1: a keyword-resolving aggregator called on a table that has no column
\* for its key role or none for Sales returns None, appends exactly one
\* 'required columns not found' entry to the log, raises nothing, leaves the
\* table alone, and main() goes on to its next stage.
C1_MissingRoleNoResult ==
  [][\A a \in KeywordAggregators :
       (/\ trace' = Append(trace, a.method)
        /\ ~HasMatch(df, a.keys) \/ ~HasMatch(df, SalesKeys))
       => /\ ret' = NoValue
          /\ exc' = "none"
          /\ df' = df
          /\ log_data'.Step = Append(log_data.Step, a.step)
          /\ log_data'.Details =
               Append(log_data.Details, [lines |-> <<a.message>>, args |-> <<>>])
          /\ driver = "main" => pc' = NextStage(a.method)]_vars

\* C1 witness: main() ran to its end although analyze_top_products found no
\* product column
C1_Witness ==
  /\ driver = "main" /\ pc = "done"
  /\ ~HasMatch(df, ProductKeys)
  /\ \E i \in 1..Len(log_data.Step) :
       /\ log_data.Step[i] = "Top Products Analysis"
       /\ log_data.Details[i].lines =
            <<"Required columns (product or sales) not found">>

\* the aggregators that read columns add_derived_columns creates, with the
\* columns each reads by name
DerivedFieldAggregators ==
  { [method |-> "analyze_profitability_trend",
     fields |-> {N_Year, N_Month, N_MonthName, N_Profit, N_Margin}],
    [method |-> "analyze_by_region_and_month",
     fields |-> {N_MonthName, N_Month}] }

\* C2: an aggregator that reads derived fields, called on a table that lacks
\* one of them, returns None with a diagnostic entry and raises nothing.
C2_DerivedFieldsChecked ==
  \A a \in DerivedFieldAggregators :
    (LastCall = a.method /\ \E f \in a.fields : ~HasCol(df, f))
    => /\ exc = "none"
       /\ ret = NoValue
       /\ \E i \in 1..Len(LastDetails.lines) :
            LastDetails.lines[i] \in
              { "Required columns (Month_Name or Profit) not found. Run add_derived_columns() first",
                "Required columns (region or sales) not found" }

\* the labels of the required patterns that no column name of d contains
MissingRequired(d) ==
  LET labels == [i \in 1..Len(RequiredColumns) |-> RequiredColumns[i].label] IN
  SelectFrom(labels,
             {i \in 1..Len(RequiredColumns) : ~HasMatch(d, <<RequiredColumns[i].key>>)},
             1)

\* C3 as claimed: when no column matches 'sales', 'cost', 'quantity' or
\* 'date', the run fails hard in add_derived_columns: the ValueError reaches
\* the caller and no aggregator is executed afterwards.
C3_MissingColumnsAbortRun ==
  (/\ driver = "main"
   /\ \E i \in 1..Len(trace) : trace[i] = "add_derived_columns"
   /\ Len(MissingRequired(df)) = Len(RequiredColumns))
  => /\ LastCall = "add_derived_columns"
     /\ exc = "ValueError"
     /\ pc = "crashed"

\* C3 as amended: when validate_columns finds required columns missing, the
\* ValueError is caught inside add_derived_columns and recorded as a
\* 'Column Validation Error' entry carrying the missing-column list; nothing
\* is raised to the caller and main() goes on to the aggregators.
C3_ValidationErrorIsLogged ==
  [][(/\ trace' = Append(trace, "add_derived_columns")
      /\ Len(MissingRequired(df)) > 0)
     => /\ exc' = "none"
        /\ Len(log_data'.Step) = Len(log_data.Step) + 2
        /\ log_data'.Step[Len(log_data.Step) + 1] = "Column Validation Error"
        /\ log_data'.Details[Len(log_data.Step) + 1].lines =
             <<"Missing required columns">> \o MissingRequired(df)
        /\ driver = "main" => pc' = "analyze_top_products"]_vars

\* C3 witness: a run of main() on a table without any of the four required
\* columns logged the validation error and went on to the aggregators
C3_Witness ==
  /\ driver = "main"
  /\ Len(MissingRequired(df)) = Len(RequiredColumns)
  /\ \E i \in 1..Len(log_data.Step) : log_data.Step[i] = "Column Validation Error"
  /\ \E i \in 1..Len(trace) : trace[i] = "analyze_top_products"

\* the number of rows of d whose cell in column name equals c
RowsWith(d, name, c) ==
  Cardinality({r \in 1..NRows(d) : d.rows[r][ColIdx(d, name)] = c})

\* C4: when Product and Sales resolve and Quantity does not,
\* analyze_top_products does not fail: it returns a table grouped by product
\* whose second metric is the column 'Count', the number of rows per product.
C4_CountFallback ==
  (/\ LastCall = "analyze_top_products"
   /\ HasMatch(df, ProductKeys) /\ HasMatch(df, SalesKeys)
   /\ ~HasMatch(df, QuantityKeys))
  => /\ exc = "none"
     /\ ret.kind = "table"
     /\ \A i \in 1..Len(ret.rows) :
          /\ ret.rows[i].metric2_name = "Count"
          /\ ret.rows[i].metric2 =
               Num(100 * RowsWith(df, resolved.product, ret.rows[i].Product))

\* the report of the last call of a top-N aggregator, as key and summed sales
TopNReport ==
  IF LastCall = "analyze_top_products"
  THEN [i \in 1..Len(ret.rows) |->
          [key |-> ret.rows[i].Product, total |-> ret.rows[i].Total_Sales]]
  ELSE [i \in 1..Len(ret.rows) |->
          [key |-> ret.rows[i].Customer, total |-> ret.rows[i].Total_Spending]]

\* the column the last call of a top-N aggregator grouped by
TopNKeyCol ==
  IF LastCall = "analyze_top_products" THEN resolved.product ELSE resolved.customer

\* the distinct non-null values of column name
DistinctKeys(d, name) ==
  {d.rows[r][ColIdx(d, name)] : r \in 1..NRows(d)} \ {Null}

IsTopNResult ==
  /\ LastCall \in {"analyze_top_products", "analyze_loyal_customer"}
  /\ ret.kind = "table"

Min(a, b) == IF a < b THEN a ELSE b

\* C5, first part: the result has min(N, number of distinct keys) rows
TopNLength ==
  IsTopNResult =>
    Len(ret.rows) = Min(arg, Cardinality(DistinctKeys(df, TopNKeyCol)))

\* C5, second part: the rows are in descending order of the summed sales
TopNDescending ==
  IsTopNResult =>
    \A i, j \in 1..Len(ret.rows) :
      i < j => Key(TopNReport[i].total) >= Key(TopNReport[j].total)

\* C5, third part: groups with equal sums keep their group-key order
TopNStable ==
  IsTopNResult =>
    \A i, j \in 1..Len(ret.rows) :
      (i < j /\ TopNReport[i].total = TopNReport[j].total)
      => Key(TopNReport[i].key) < Key(TopNReport[j].key)

\* C5: the result of a top-N aggregator has min(N, distinct keys) rows, in
\* descending order of the summed sales, equal sums in group-key order.
C5_TopNStableDescending == TopNLength /\ TopNDescending /\ TopNStable

\* C6: clean_data never increases the row count, and the rows-removed figure
\* it reports is the original row count minus the final row count, >= 0.
C6_CleanNeverAddsRows ==
  [][trace' = Append(trace, "clean_data")
     => /\ NRows(df') <= NRows(df)
        /\ LastStep' = "Data Cleaning Summary"
        /\ LastDetails'.args[1] = NRows(df')
        /\ LastDetails'.args[2] = original_rows - NRows(df')
        /\ LastDetails'.args[2] >= 0]_vars

\* C6 witness: clean_data has removed rows and reported them
C6_Witness ==
  /\ LastCall = "clean_data"
  /\ NRows(df) < original_rows
  /\ LastDetails.args[2] > 0

\* the table has no duplicate row, no null, and no non-positive value in a
\* numeric column named quantity / sales / price
IsClean(d) ==
  /\ \A i, j \in 1..NRows(d) : d.rows[i] = d.rows[j] => i = j
  /\ \A r \in 1..NRows(d) : \A k \in 1..Len(d.cols) : ~IsNull(d.rows[r][k])
  /\ \A k \in 1..Len(d.cols) :
       (d.cols[k].dtype = "num"
        /\ HasMatch([cols |-> <<d.cols[k]>>], <<K_quantity, K_sales, K_price>>))
       => \A r \in 1..NRows(d) : d.rows[r][k].t \in {"num", "inf"} /\ d.rows[r][k].v > 0

\* part of C7 that holds: clean_data leaves an already clean table unchanged
CleanTableUnchanged ==
  [][(trace' = Append(trace, "clean_data") /\ IsClean(df)) => df' = df]_vars

\* C7: clean_data on an already clean table leaves it unchanged and reports
\* zero rows removed, also when an earlier clean_data made the table clean.
C7_CleanIsIdempotent ==
  [][(trace' = Append(trace, "clean_data") /\ IsClean(df))
     => /\ df' = df
        /\ LastDetails'.args[2] = 0]_vars

\* the first column of d, in column order, whose name has one of the keywords
FirstWith(d, keys) ==
  LET k == CHOOSE k \in 1..Len(d.cols) :
             /\ HasMatch([cols |-> <<d.cols[k]>>], keys)
             /\ \A j \in 1..(k - 1) : ~HasMatch([cols |-> <<d.cols[j]>>], keys)
  IN  d.cols[k].name

\* column Profit of after is Sales - Cost of before, row by row
ProfitIsSalesMinusCost(before, after) ==
  /\ HasCol(after, N_Profit)
  /\ NRows(after) = NRows(before)
  /\ \A r \in 1..NRows(before) :
       LET sv == Col(before, FirstWith(before, SalesKeys))[r]
           cv == Col(before, FirstWith(before, CostKeys))[r]
           pv == Col(after, N_Profit)[r]
       IN  /\ (sv.t = "num" /\ cv.t = "num") => (pv.t = "num" /\ pv.v = sv.v - cv.v)
           /\ (IsNull(sv) \/ IsNull(cv)) => IsNull(pv)

\* C8 as claimed: when Sales and Cost resolve and the table has no column
\* named Profit, add_derived_columns adds Profit = Sales - Cost for every
\* row; an existing column Profit is left unchanged.
C8_ProfitAddedUnlessNamedProfit ==
  [][trace' = Append(trace, "add_derived_columns")
     => /\ (HasMatch(df, SalesKeys) /\ HasMatch(df, CostKeys) /\ ~HasCol(df, N_Profit))
           => ProfitIsSalesMinusCost(df, df')
        /\ HasCol(df, N_Profit) => Col(df', N_Profit) = Col(df, N_Profit)]_vars

\* C8 as amended: when Sales and Cost resolve and no column name contains
\* 'profit', add_derived_columns adds Profit = Sales - Cost for every row;
\* when some column name contains 'profit', no column Profit is created and
\* an existing column Profit is left unchanged.
C8_ProfitAddedUnlessProfitRole ==
  [][trace' = Append(trace, "add_derived_columns")
     => /\ (HasMatch(df, SalesKeys) /\ HasMatch(df, CostKeys) /\ ~HasMatch(df, ProfitKeys))
           => ProfitIsSalesMinusCost(df, df')
        /\ HasMatch(df, ProfitKeys)
           => /\ HasCol(df', N_Profit) <=> HasCol(df, N_Profit)
              /\ HasCol(df, N_Profit) => Col(df', N_Profit) = Col(df, N_Profit)]_vars

\* C8 witness: add_derived_columns has created Profit on a table with rows
\* whose sales and cost differ
C8_Witness ==
  /\ LastCall = "add_derived_columns"
  /\ \E i \in 1..Len(LastDetails.lines) : LastDetails.lines[i] = "Profit column created"
  /\ \E r \in 1..NRows(df) : Col(df, N_Profit)[r].t = "num" /\ Col(df, N_Profit)[r].v # 0

\* the keywords of each role that is resolved by keyword
RoleKeys ==
  [sales |-> SalesKeys, cost |-> CostKeys, profit |-> ProfitKeys,
   quantity |-> QuantityKeys, product |-> ProductKeys, customer |-> CustomerKeys,
   category |-> CategoryKeys, region |-> RegionKeys, date |-> DateKeys]

\* r is the first of names containing a keyword, or None when there is none
IsFirstMatch(r, names, keys) ==
  LET hit(k) == \E j \in 1..Len(keys) : keys[j] \in KeywordsIn[names[k]] IN
  IF r = None THEN \A k \in 1..Len(names) : ~hit(k)
  ELSE \E k \in 1..Len(names) :
         /\ names[k] = r
         /\ hit(k)
         /\ \A j \in 1..(k - 1) : ~hit(j)

\* C9: every role a method resolved by keyword is the first column, in the
\* order of the columns the table has at that stage, whose lowercased name
\* contains a keyword of the role, and None when no column does.
C9_FirstMatchResolution ==
  \A role \in (DOMAIN resolved) \cap (DOMAIN RoleKeys) :
    IsFirstMatch(resolved[role], ColNames(df), RoleKeys[role])

\* C9 witness: after the derivation, a stage resolved Sales to a 'revenue'
\* column that stands before a 'sales' column
C9_Witness ==
  /\ \E i \in 1..(Len(trace) - 1) : trace[i] = "add_derived_columns"
  /\ "sales" \in DOMAIN resolved
  /\ resolved.sales = N_Revenue
  /\ HasCol(df, N_Sales)

\* the aggregators of the pipeline
Aggregators ==
  {"analyze_top_products", "analyze_loyal_customer", "analyze_profitability_trend",
   "analyze_by_category", "analyze_by_region_and_month", "general_final_report"}

\* C10: in a run of main(), every aggregator starts after clean_data has
\* completed and add_derived_columns has completed after it.
C10_CleanDeriveAggregate ==
  driver = "main" =>
    \A i \in 1..Len(trace) :
      trace[i] \in Aggregators
      => \E j, k \in 1..Len(trace) :
           /\ j < k /\ k < i
           /\ trace[j] = "clean_data"
           /\ trace[k] = "add_derived_columns"

\* C10 witness: main() has called all nine methods
C10_Witness ==
  /\ driver = "main" /\ pc = "done"
  /\ Len(trace) = Len(MainOrder)

\* the total a ranked report is sorted by
RankTotal(m, row) ==
  IF m = "analyze_loyal_customer" THEN row.Total_Spending ELSE row.Total_Sales

\* two ranked reports of n rows at most (n = 0: all rows) agree: the same
\* totals at the same ranks, and the same row wherever the total of the rank
\* is not shared, which is where the unstable sort leaves no choice
SameRanking(m, n, x, y) ==
  /\ Len(x) = Len(y)
  /\ \A i \in 1..Len(x) :
       /\ RankTotal(m, x[i]) = RankTotal(m, y[i])
       /\ (/\ \A j \in 1..Len(x) : j # i => RankTotal(m, x[j]) # RankTotal(m, x[i])
           /\ (i < Len(x) \/ n = 0 \/ Len(x) < n))
          => x[i] = y[i]

\* the results a and b of two calls m(n) agree
SameResult(m, n, a, b) ==
  /\ a.kind = b.kind
  /\ a.kind = "table" =>
       IF m \in {"analyze_top_products", "analyze_loyal_customer", "analyze_by_category"}
       THEN SameRanking(m, n, a.rows, b.rows)
       ELSE a.rows = b.rows
  /\ a.kind = "tables" =>
       /\ a.regional_monthly = b.regional_monthly
       /\ a.month_summary = b.month_summary
       /\ SameRanking(m, 0, a.region_summary, b.region_summary)

\* the log new extends the log old: the entries of old are its first entries
LogExtends(old, new) ==
  /\ Len(new.Step) >= Len(old.Step)
  /\ Len(new.Details) >= Len(old.Details)
  /\ SubSeq(new.Step, 1, Len(old.Step)) = old.Step
  /\ SubSeq(new.Details, 1, Len(old.Details)) = old.Details

\* C11: no aggregator call changes the table (rows, columns, values) nor the
\* original row count, it only appends to the log; and calling an aggregator
\* again with the same argument gives the same outcome as the call before.
C11_AggregatorsLeaveTable ==
  [][(\E m \in Aggregators : trace' = Append(trace, m))
     => /\ df' = df
        /\ original_rows' = original_rows
        /\ LogExtends(log_data, log_data')
        /\ (/\ trace # <<>>
            /\ trace' = Append(trace, LastCall)
            /\ arg' = arg)
           => /\ exc' = exc
              /\ resolved' = resolved
              /\ SameResult(LastCall, arg, ret, ret')]_vars

\* C11 witness: an aggregator was called twice in a row on a table with at
\* least two groups and returned a report both times
C11_Witness ==
  /\ Len(trace) = 2
  /\ trace[1] = trace[2]
  /\ trace[2] \in Aggregators
  /\ ret.kind = "table"
  /\ Len(ret.rows) >= 2
  /\ NRows(df) >= 2

\* not a property of the model: the repeated call returns the very same rows
\* in the same order, ties included.  The model lets every call of the
\* unstable sort order the tied rows afresh.
RepeatIdentical ==
  [][(/\ \E m \in Aggregators : trace' = Append(trace, m)
      /\ trace # <<>>
      /\ trace' = Append(trace, LastCall)
      /\ arg' = arg)
     => ret' = ret]_vars

\* the number of entries the log has grown by in a step
Added == Len(log_data'.Step) - Len(log_data.Step)

\* the call made in a step
Called(m) == trace' = Append(trace, m)

C13_CleanLeavesNoDuplicates ==
  [][Called("clean_data")
     => \A i, j \in 1..NRows(df') : df'.rows[i] = df'.rows[j] => i = j]_vars

=============================================================================
